---- MODULE Spec2Model ----
(***************************************************************************)
(* One request handled by BedrockConverseProxyHandler                      *)
(* (src/bedrock_converse_proxy.py): routing in do_POST, the two            *)
(* non-streaming flows, and handle_streaming_response on both backend      *)
(* paths (custom HTTP endpoint, boto3 SDK event iterator).                 *)
(***************************************************************************)
EXTENDS Integers, Sequences, FiniteSets, TLC

VARIABLES
    method,         \* HTTP method of the request
    target,         \* request target: [segs: path segments, query: BOOLEAN]
    custom,         \* BEDROCK_CUSTOM_URL is set (process configuration)
    pc,             \* position of the handler
    flow,           \* flow the router resolved to ("none" before routing)
    model_id,       \* match.group(1), as a sequence of path segments
    body,           \* request body read from rfile ("unread" before)
    exc,            \* exception being handled ("none" when there is none)
    backendCalls,   \* backend operations invoked so far, in order
    bytes,          \* body of the custom endpoint's streaming response
    pos,            \* number of characters of bytes consumed by iter_content
    buffer,         \* the local variable buffer of the SSE line parser
    stream,         \* response['stream'] on the custom path, with line numbers
    lineNo,         \* complete lines consumed so far (bookkeeping for stream)
    seen,           \* events the SDK iterator has delivered so far
    evIdx,          \* events the translation loop has taken so far
    current_index,  \* the local variable current_index
    out,            \* writes to the client attempted so far, in order
    stage,          \* translation function applied, "off" while a request is handled
    arg,            \* the value the translation function is applied to
    res             \* what the translation function returned or raised

hvars == <<method, target, custom, pc, flow, model_id, body, exc, backendCalls,
           bytes, pos, buffer, stream, lineNo, seen, evIdx, current_index, out>>

tvars == <<stage, arg, res>>

vars == <<hvars, tvars>>

----------------------------------------------------------------------------
(* Bounds of the model *)

MaxPathLen == 4     \* path segments of a request target
MaxEvents == 4      \* events one SDK stream delivers
MaxUnits == 3       \* line units composing one custom-endpoint stream
MaxItems == 2       \* items of one list content
MaxMsgs == 2        \* messages of one request, when more than one

----------------------------------------------------------------------------
(* Generic helpers *)

RECURSIVE Flatten(_)
Flatten(ss) == IF ss = <<>> THEN <<>> ELSE Head(ss) \o Flatten(Tail(ss))

SeqsUpTo(S, n) == UNION {[1..k -> S] : k \in 0..n}

Last(s) == s[Len(s)]

----------------------------------------------------------------------------
(* Request targets.  A target "/s1/s2/.../sn[?query]" is the sequence of   *)
(* its segments plus the presence of a query string.                       *)

Methods == {"POST", "GET"}

Segments == {"model", "v1", "messages", "invoke",
             "invoke-with-response-stream", "x", ""}

Targets == {[segs |-> s, query |-> q] :
              s \in (SeqsUpTo(Segments, MaxPathLen) \ {<<>>}), q \in BOOLEAN}

\* urlparse(self.path).path : the query string is dropped.
UrlPath(t) == t.segs

Operations == {"invoke", "invoke-with-response-stream"}

\* re.match(r'^/model/.+/(invoke|invoke-with-response-stream)$', path):
\* "/model/", then at least one character, then "/" and the operation at
\* the end of the path.  The result is [matched, id, op].
NoMatch == [matched |-> FALSE, id |-> <<>>, op |-> ""]

InvokeMatchUnanchored(path) ==
    IF /\ Len(path) >= 3
       /\ path[1] = "model"
       /\ \E i \in 3..Len(path) : path[i] \in Operations
    THEN LET i == CHOOSE j \in 3..Len(path) :
                    /\ path[j] \in Operations
                    /\ \A k \in 3..(j-1) : path[k] \notin Operations
         IN [matched |-> TRUE, id |-> SubSeq(path, 2, i - 1), op |-> "invoke"]
    ELSE NoMatch

InvokeMatch(path) ==
    LET n == Len(path) IN
    IF /\ n >= 3
       /\ path[1] = "model"
       /\ path[n] \in Operations
       /\ ~(n = 3 /\ path[2] = "")
    THEN [matched |-> TRUE, id |-> SubSeq(path, 2, n - 1), op |-> path[n]]
    ELSE NoMatch

\* is_streaming = match.group(2) == 'invoke-with-response-stream'
IsStreaming(m) == m.op = "invoke-with-response-stream"

----------------------------------------------------------------------------
(* Writes to the client.  Every attempted write is one record of out; ok   *)
(* tells whether it reached the client.                                    *)

Wr(kind, status, type, index, text, src, ok) ==
    [kind |-> kind, status |-> status, type |-> type, index |-> index,
     text |-> text, src |-> src, ok |-> ok]

\* send_response + send_header + end_headers: status line and headers
HeadRec(status, ctype, ok) == Wr("head", status, ctype, -1, "", 0, ok)
\* wfile.write of a JSON body
BodyRec(type, ok) == Wr("body", 0, type, -1, "", 0, ok)
\* wfile.write of one SSE record "event: <type>\ndata: <json>\n\n"
SseRec(type, index, text, src, ok) == Wr("sse", 0, type, index, text, src, ok)

ClientGone == \E i \in 1..Len(out) : ~out[i].ok

\* A write may fail (the client closed the connection); once one has
\* failed the connection stays broken.
OkChoices == IF ClientGone THEN {FALSE} ELSE BOOLEAN

\* What reached the client.
Wire == SelectSeq(out, LAMBDA r : r.ok)

----------------------------------------------------------------------------
(* Backend stream events.  An event is the dict the loop of                *)
(* handle_streaming_response inspects: key is its top-level key, text the  *)
(* delta text, idx the contentBlockIndex the backend put in the payload,   *)
(* meta whether a messageStop event also carries metadata.usage, wf        *)
(* whether a contentBlockDelta payload has its 'delta' member.             *)

Ev(key, text, idx, meta, wf) ==
    [key |-> key, text |-> text, idx |-> idx, meta |-> meta, wf |-> wf]

EvMessageStart == Ev("messageStart", "", 0, FALSE, TRUE)
EvBlockStart == Ev("contentBlockStart", "", 0, FALSE, TRUE)
EvDelta(t, i) == Ev("contentBlockDelta", t, i, FALSE, TRUE)
EvBadDelta == Ev("contentBlockDelta", "", 0, FALSE, FALSE)
EvBlockStop == Ev("contentBlockStop", "", 1, FALSE, TRUE)
EvMessageStop(m) == Ev("messageStop", "", 0, m, TRUE)
EvMetadata == Ev("metadata", "", 0, FALSE, TRUE)
EvPing == Ev("ping", "", 0, FALSE, TRUE)

BackendEvents ==
    {EvMessageStart, EvBlockStart, EvDelta("a", 0), EvDelta("b", 1),
     EvBadDelta, EvBlockStop, EvMessageStop(FALSE), EvMessageStop(TRUE),
     EvMetadata, EvPing}

\* event['contentBlockDelta']['delta'] raises KeyError when 'delta' is absent
Raises(ev) == ev.key = "contentBlockDelta" /\ ~ev.wf

Out(type, index, text) == [type |-> type, index |-> index, text |-> text]

\* The index the loop attaches to a content-block event.
BlockIndexFromPayload(ev, cur) == ev.idx

BlockIndex(ev, cur) == cur

\* The SSE records one iteration of the loop writes for event ev, in order
\* (the if/elif chain of lines 465-553).
Emission(ev, cur) ==
    CASE ev.key = "messageStart" ->
           <<Out("message_start", -1, "")>>
      [] ev.key = "contentBlockStart" ->
           <<Out("content_block_start", BlockIndex(ev, cur), "")>>
      [] ev.key = "contentBlockDelta" ->
           <<Out("content_block_delta", BlockIndex(ev, cur), ev.text)>>
      [] ev.key = "contentBlockStop" ->
           <<Out("content_block_stop", BlockIndex(ev, cur), "")>>
      [] ev.key = "messageStop" ->
           (IF ev.meta THEN <<Out("message_delta", -1, "")>> ELSE <<>>)
             \o <<Out("message_stop", -1, "")>>
      [] OTHER -> <<>>

\* current_index after the iteration for ev completed (line 520)
NextIndex(ev, cur) == IF ev.key = "contentBlockStop" THEN cur + 1 ELSE cur

----------------------------------------------------------------------------
(* The SSE line parser of the custom path (lines 411-442).  The response   *)
(* body is a sequence of characters; an embedded JSON object is written    *)
(* as the three characters "{", k, "}" where k stands for the object's     *)
(* content.                                                                *)

DataPrefix == <<"d", "a", "t", "a", ":", " ">>

Whitespace == {" ", "\r", "\n", "\t"}

KeyChars == {"S", "C", "a", "b", "E", "M", "U", "Q"}

KeyEvent(k) ==
    CASE k = "S" -> EvMessageStart
      [] k = "C" -> EvBlockStart
      [] k = "a" -> EvDelta("a", 0)
      [] k = "b" -> EvDelta("b", 1)
      [] k = "E" -> EvBlockStop
      [] k = "M" -> EvMessageStop(FALSE)
      [] k = "U" -> EvMetadata
      [] OTHER -> EvPing

\* str.strip()
RECURSIVE LStrip(_)
LStrip(s) == IF s # <<>> /\ Head(s) \in Whitespace THEN LStrip(Tail(s)) ELSE s

RECURSIVE RStrip(_)
RStrip(s) == IF s # <<>> /\ Last(s) \in Whitespace
             THEN RStrip(SubSeq(s, 1, Len(s) - 1)) ELSE s

Strip(s) == RStrip(LStrip(s))

\* str.startswith
StartsWith(s, p) == Len(s) >= Len(p) /\ SubSeq(s, 1, Len(p)) = p

\* str.split('\n')
RECURSIVE Split(_)
Split(s) ==
    IF \E i \in 1..Len(s) : s[i] = "\n"
    THEN LET i == CHOOSE j \in 1..Len(s) :
                    s[j] = "\n" /\ \A k \in 1..(j-1) : s[k] # "\n"
         IN <<SubSeq(s, 1, i - 1)>> \o Split(SubSeq(s, i + 1, Len(s)))
    ELSE <<s>>

\* json.loads: surrounding whitespace is allowed, anything but one complete
\* object is a JSONDecodeError.
JsonLoads(s) ==
    LET t == Strip(s) IN
    IF Len(t) = 3 /\ t[1] = "{" /\ t[2] \in KeyChars /\ t[3] = "}"
    THEN [ok |-> TRUE, ev |-> KeyEvent(t[2])]
    ELSE [ok |-> FALSE, ev |-> EvPing]

\* except json.JSONDecodeError: the line is skipped (lines 428-431)
OnDecodeErrorAbort(strm) == <<>>

OnDecodeError(strm) == strm

\* The body of the loop over complete lines (lines 423-431) and the
\* handling of the last buffer (lines 437-442): n is the line's number.
ProcessLine(raw, strm, n) ==
    LET line == Strip(raw) IN
    IF StartsWith(line, DataPrefix)
    THEN LET r == JsonLoads(SubSeq(line, 7, Len(line))) IN
         IF r.ok THEN Append(strm, [ev |-> r.ev, line |-> n])
         ELSE OnDecodeError(strm)
    ELSE strm

RECURSIVE ProcessLines(_, _, _, _)
ProcessLines(lines, k, strm, n) ==
    IF k = 0 THEN strm
    ELSE ProcessLine(lines[k], ProcessLines(lines, k - 1, strm, n), n + k)

\* buffer = lines[-1] (line 434)
KeepLastDropped(lines) == <<>>

KeepLast(lines) == lines[Len(lines)]

\* One iteration of the loop over iter_content (lines 417-434).
Feed(buf, strm, n, chunk) ==
    LET lines == Split(buf \o chunk)
        k == Len(lines) - 1
    IN [buffer |-> KeepLast(lines),
        stream |-> ProcessLines(lines, k, strm, n),
        lineNo |-> n + k]

\* Responses of the custom endpoint: concatenations of line units.
LineOf(k) == DataPrefix \o <<"{", k, "}", "\n">>

Units ==
    {LineOf("S"), LineOf("a"), LineOf("b"),
     DataPrefix \o <<"{", "E", "}", "\r", "\n">>,
     LineOf("M"),
     DataPrefix \o <<"{", "S", "\n">>,
     <<"\n">>,
     DataPrefix \o <<"{", "M", "}">>}

ByteStreams == {Flatten(u) : u \in SeqsUpTo(Units, MaxUnits)}

----------------------------------------------------------------------------
(* Initial states *)

Fresh ==
    /\ pc = "request" /\ flow = "none" /\ model_id = <<>>
    /\ body = "unread" /\ exc = "none" /\ backendCalls = <<>>
    /\ bytes = <<>> /\ pos = 0 /\ buffer = <<>> /\ stream = <<>>
    /\ lineNo = 0 /\ seen = <<>> /\ evIdx = 0 /\ current_index = 0
    /\ out = <<>>

\* No translation function is under study while a request is handled.
Idle == stage = "off" /\ arg = <<>> /\ res = <<>>

T(segs, q) == [segs |-> segs, query |-> q]

\* The requests whose handling is explored in full.
MainRequests ==
    {<<"POST", T(<<"v1", "messages">>, FALSE)>>,
     <<"POST", T(<<"model", "x", "invoke">>, FALSE)>>,
     <<"POST", T(<<"model", "x", "invoke-with-response-stream">>, FALSE)>>,
     <<"POST", T(<<"v1", "x">>, TRUE)>>,
     <<"GET", T(<<"v1", "messages">>, FALSE)>>}

Init ==
    /\ \E r \in MainRequests : method = r[1] /\ target = r[2]
    /\ custom \in BOOLEAN
    /\ Fresh
    /\ Idle

\* Every method and target within the bounds, for the router alone.
InitRoute ==
    /\ method \in Methods
    /\ target \in Targets
    /\ custom \in BOOLEAN
    /\ Fresh
    /\ Idle

----------------------------------------------------------------------------
(* Routing *)

\* send_error(code, message): an error status line, headers and an HTML body
SendError(code) == <<HeadRec(code, "text/html", TRUE), BodyRec("html", TRUE)>>

\* do_POST (lines 33-44) and the match of handle_invoke_endpoint (203-209)
DoPOST ==
    /\ pc = "request" /\ method = "POST"
    /\ LET path == UrlPath(target)
           m == InvokeMatch(path)
       IN IF path = <<"v1", "messages">>
          THEN /\ pc' = "messages" /\ flow' = "messages"
               /\ UNCHANGED <<model_id, out>>
          ELSE IF m.matched
          THEN /\ pc' = "invoke"
               /\ flow' = IF IsStreaming(m) THEN "invoke_stream" ELSE "invoke"
               /\ model_id' = m.id
               /\ UNCHANGED out
          ELSE /\ pc' = "done" /\ flow' = "unsupported"
               /\ out' = out \o SendError(404)
               /\ UNCHANGED model_id
    /\ UNCHANGED tvars
    /\ UNCHANGED <<method, target, custom, body, exc, backendCalls, bytes, pos,
                   buffer, stream, lineNo, seen, evIdx, current_index>>

\* The class defines no handler for any other method: the base class
\* answers 501 without calling into the proxy.
DoOtherMethod ==
    /\ pc = "request" /\ method # "POST"
    /\ pc' = "done" /\ flow' = "unsupported"
    /\ out' = out \o SendError(501)
    /\ UNCHANGED tvars
    /\ UNCHANGED <<method, target, custom, model_id, body, exc, backendCalls,
                   bytes, pos, buffer, stream, lineNo, seen, evIdx,
                   current_index>>

----------------------------------------------------------------------------
(* Request bodies and the non-streaming flows *)

BodyKinds == {"ok", "badjson", "norole", "nocontent"}

\* The exception raised while parsing and converting the body, or "none".
ParseException(b) ==
    CASE b = "badjson" -> "JSONDecodeError"
      [] b \in {"norole", "nocontent"} -> "KeyError"
      [] OTHER -> "none"

\* Outcomes of the synchronous backend call, as the exception raised
\* ("none": a response with the expected shape).
CallOutcomes ==
    IF custom THEN {"none", "HTTPError", "ConnectionError", "JSONDecodeError",
                    "KeyError"}
    ELSE {"none", "ClientError", "KeyError"}

ParseStep(here, next) ==
    /\ pc = here
    /\ \E b \in BodyKinds :
         /\ body' = b
         /\ IF ParseException(b) # "none"
            THEN pc' = "except" /\ exc' = ParseException(b)
            ELSE pc' = next /\ exc' = exc
    /\ UNCHANGED tvars
    /\ UNCHANGED <<method, target, custom, flow, model_id, backendCalls, bytes,
                   pos, buffer, stream, lineNo, seen, evIdx, current_index, out>>

\* handle_messages_endpoint, lines 49-107
MessagesParse == ParseStep("messages", "call")

\* handle_invoke_endpoint, lines 211-277
InvokeParse ==
    ParseStep("invoke", IF flow = "invoke_stream" THEN "s_call" ELSE "call")

\* the Converse call and the conversion of its response (lines 109-160 and
\* 280-336)
CallStep(flows) ==
    /\ pc = "call" /\ flow \in flows
    /\ backendCalls' = Append(backendCalls, "converse")
    /\ \E o \in CallOutcomes :
         IF o = "none" THEN pc' = "respond" /\ exc' = exc
         ELSE pc' = "except" /\ exc' = o
    /\ UNCHANGED tvars
    /\ UNCHANGED <<method, target, custom, flow, model_id, body, bytes, pos,
                   buffer, stream, lineNo, seen, evIdx, current_index, out>>

\* Writes of a head and a body: the second is attempted only when the
\* first succeeded (a failed write raises).
HeadAndBody(status, type, ok1, ok2) ==
    IF ok1 THEN <<HeadRec(status, "application/json", TRUE), BodyRec(type, ok2)>>
    ELSE <<HeadRec(status, "application/json", FALSE)>>

\* Whether len(content) in the log line that follows the write (line 170)
\* is defined.  content is the JSON value the custom endpoint put at
\* output.message.content[0].text, of any type; the SDK delivers a string,
\* and the invoke handler takes the length of a list it built (line 346).
Sized == IF flow = "messages" /\ custom THEN BOOLEAN ELSE {TRUE}

\* Send response and log it (lines 162-172 and 338-348)
RespondStep(flows) ==
    /\ pc = "respond" /\ flow \in flows
    /\ \E ok1 \in OkChoices, ok2 \in OkChoices, sized \in Sized :
         /\ out' = out \o HeadAndBody(200, "message", ok1, ok2)
         /\ IF ~(ok1 /\ ok2) THEN pc' = "except" /\ exc' = "BrokenPipeError"
            ELSE IF ~sized THEN pc' = "except" /\ exc' = "TypeError"
            ELSE pc' = "done" /\ exc' = exc
    /\ UNCHANGED tvars
    /\ UNCHANGED <<method, target, custom, flow, model_id, body, backendCalls,
                   bytes, pos, buffer, stream, lineNo, seen, evIdx,
                   current_index>>

\* The handler of "except Exception" prints json.dumps(claude_request)
\* (line 185), a name that is unbound when json.loads itself failed; the
\* invoke handler prints request_body instead (line 361).
HandlerRaises == flow = "messages" /\ body = "badjson"

\* The except clauses (lines 174-198 and 350-374)
ExceptStep(flows) ==
    /\ pc = "except" /\ flow \in flows
    /\ pc' = "done"
    /\ IF exc = "HTTPError"
       THEN UNCHANGED <<out, exc>>
       ELSE IF HandlerRaises
       THEN exc' = "UnboundLocalError" /\ UNCHANGED out
       ELSE /\ \E ok1 \in OkChoices, ok2 \in OkChoices :
                 out' = out \o HeadAndBody(500, "error", ok1, ok2)
            /\ UNCHANGED exc
    /\ UNCHANGED tvars
    /\ UNCHANGED <<method, target, custom, flow, model_id, body, backendCalls,
                   bytes, pos, buffer, stream, lineNo, seen, evIdx,
                   current_index>>

\* handle_messages_endpoint
MessagesCall == CallStep({"messages"})
MessagesRespond == RespondStep({"messages"})
MessagesExcept == ExceptStep({"messages"})

\* handle_invoke_endpoint
InvokeCall == CallStep({"invoke"})
InvokeRespond == RespondStep({"invoke"})
InvokeExcept == ExceptStep({"invoke", "invoke_stream"})

----------------------------------------------------------------------------
(* handle_streaming_response *)

\* requests.post(..., stream=True) and raise_for_status (lines 380-413)
StreamCallCustom ==
    /\ pc = "s_call" /\ custom
    /\ backendCalls' = Append(backendCalls, "converse-stream")
    /\ \/ \E b \in ByteStreams :
            /\ bytes' = b /\ pc' = "s_read" /\ exc' = exc
       \/ \E e \in {"HTTPError", "ConnectionError"} :
            /\ pc' = "s_except" /\ exc' = e /\ bytes' = bytes
    /\ UNCHANGED tvars
    /\ UNCHANGED <<method, target, custom, flow, model_id, body, pos, buffer,
                   stream, lineNo, seen, evIdx, current_index, out>>

\* bedrock_client.converse_stream (lines 443-446)
StreamCallSdk ==
    /\ pc = "s_call" /\ ~custom
    /\ backendCalls' = Append(backendCalls, "converse_stream")
    /\ \/ pc' = "s_head" /\ exc' = exc
       \/ pc' = "s_except" /\ exc' = "ClientError"
    /\ UNCHANGED tvars
    /\ UNCHANGED <<method, target, custom, flow, model_id, body, bytes, pos,
                   buffer, stream, lineNo, seen, evIdx, current_index, out>>

\* One chunk of iter_content, of any length (lines 416-434)
ReadChunk ==
    /\ pc = "s_read" /\ pos < Len(bytes)
    /\ \E n \in 1..(Len(bytes) - pos) :
         LET r == Feed(buffer, stream, lineNo, SubSeq(bytes, pos + 1, pos + n))
         IN /\ pos' = pos + n
            /\ buffer' = r.buffer
            /\ stream' = r.stream
            /\ lineNo' = r.lineNo
    /\ UNCHANGED tvars
    /\ UNCHANGED <<method, target, custom, pc, flow, model_id, body, exc,
                   backendCalls, bytes, seen, evIdx, current_index, out>>

\* iter_content raises: the connection to the backend broke
ReadError ==
    /\ pc = "s_read" /\ pos < Len(bytes)
    /\ pc' = "s_except" /\ exc' = "ChunkedEncodingError"
    /\ UNCHANGED tvars
    /\ UNCHANGED <<method, target, custom, flow, model_id, body, backendCalls,
                   bytes, pos, buffer, stream, lineNo, seen, evIdx,
                   current_index, out>>

\* End of the response body: the remaining buffer (lines 436-442)
ReadEnd ==
    /\ pc = "s_read" /\ pos = Len(bytes)
    /\ stream' = ProcessLine(buffer, stream, lineNo + 1)
    /\ pc' = "s_head"
    /\ UNCHANGED tvars
    /\ UNCHANGED <<method, target, custom, flow, model_id, body, exc,
                   backendCalls, bytes, pos, buffer, lineNo, seen, evIdx,
                   current_index, out>>

\* Send headers for streaming response (lines 448-462)
StreamHead ==
    /\ pc = "s_head"
    /\ \E ok \in OkChoices :
         /\ out' = Append(out, HeadRec(200, "text/event-stream", ok))
         /\ IF ok THEN pc' = "s_loop" /\ exc' = exc
            ELSE pc' = "s_except" /\ exc' = "BrokenPipeError"
    /\ UNCHANGED tvars
    /\ UNCHANGED <<method, target, custom, flow, model_id, body, backendCalls,
                   bytes, pos, buffer, stream, lineNo, seen, evIdx,
                   current_index>>

\* The writes of one iteration: f = 0 when every write succeeds, otherwise
\* the f-th write fails and raises, so that no later one is attempted.
WritesLastFirst(em, src, f) ==
    LET n == IF f = 0 THEN Len(em) ELSE f IN
    [j \in 1..n |->
        SseRec(em[n + 1 - j].type, em[n + 1 - j].index, em[n + 1 - j].text,
               src, f = 0 \/ j < f)]

Writes(em, src, f) ==
    [j \in 1..(IF f = 0 THEN Len(em) ELSE f) |->
        SseRec(em[j].type, em[j].index, em[j].text, src, f = 0 \/ j < f)]

\* One iteration of "for event in response['stream']" (lines 464-553) for
\* event ev, the src-th of the stream.
IterationKeepsGoing(ev, src) ==
    IF Raises(ev)
    THEN /\ pc' = "s_except" /\ exc' = "KeyError"
         /\ UNCHANGED <<out, current_index>>
    ELSE LET em == Emission(ev, current_index) IN
         \E f \in 0..Len(em) :
           /\ out' = out \o Writes(em, src, f)
           /\ current_index' = NextIndex(ev, current_index)
           /\ UNCHANGED <<pc, exc>>

Iteration(ev, src) ==
    IF Raises(ev)
    THEN /\ pc' = "s_except" /\ exc' = "KeyError"
         /\ UNCHANGED <<out, current_index>>
    ELSE LET em == Emission(ev, current_index) IN
         \E f \in 0..Len(em) :
           /\ out' = out \o Writes(em, src, f)
           /\ IF f = 0
              THEN /\ current_index' = NextIndex(ev, current_index)
                   /\ UNCHANGED <<pc, exc>>
              ELSE /\ pc' = "s_except" /\ exc' = "BrokenPipeError"
                   /\ UNCHANGED current_index

\* The loop over the list built from the custom endpoint's response
StreamEventCustom ==
    /\ pc = "s_loop" /\ custom /\ evIdx < Len(stream)
    /\ evIdx' = evIdx + 1
    /\ Iteration(stream[evIdx + 1].ev, stream[evIdx + 1].line)
    /\ UNCHANGED tvars
    /\ UNCHANGED <<method, target, custom, flow, model_id, body, backendCalls,
                   bytes, pos, buffer, stream, lineNo, seen>>

\* The loop over the SDK's event iterator: the next event is read from the
\* backend when the iteration starts
StreamEventSdk ==
    /\ pc = "s_loop" /\ ~custom /\ Len(seen) < MaxEvents
    /\ \E ev \in BackendEvents :
         /\ seen' = Append(seen, ev)
         /\ evIdx' = evIdx + 1
         /\ Iteration(ev, Len(seen) + 1)
    /\ UNCHANGED tvars
    /\ UNCHANGED <<method, target, custom, flow, model_id, body, backendCalls,
                   bytes, pos, buffer, stream, lineNo>>

\* The SDK iterator raises in the middle of the stream
StreamIterError ==
    /\ pc = "s_loop" /\ ~custom /\ Len(seen) < MaxEvents
    /\ pc' = "s_except" /\ exc' = "EventStreamError"
    /\ UNCHANGED tvars
    /\ UNCHANGED <<method, target, custom, flow, model_id, body, backendCalls,
                   bytes, pos, buffer, stream, lineNo, seen, evIdx,
                   current_index, out>>

\* The stream is exhausted: flush (lines 555-562)
StreamEnd ==
    /\ pc = "s_loop"
    /\ custom => evIdx = Len(stream)
    /\ pc' = "done"
    /\ UNCHANGED tvars
    /\ UNCHANGED <<method, target, custom, flow, model_id, body, exc,
                   backendCalls, bytes, pos, buffer, stream, lineNo, seen,
                   evIdx, current_index, out>>

\* The except clauses of handle_streaming_response (lines 564-584)
StreamExcept ==
    /\ pc = "s_except"
    /\ pc' = "done"
    /\ IF exc = "HTTPError"
       THEN UNCHANGED out
       ELSE \E ok \in OkChoices :
              out' = Append(out, SseRec("error", -1, "", 0, ok))
    /\ UNCHANGED tvars
    /\ UNCHANGED <<method, target, custom, flow, model_id, body, exc,
                   backendCalls, bytes, pos, buffer, stream, lineNo, seen,
                   evIdx, current_index>>

----------------------------------------------------------------------------
(* Specifications *)

Next ==
    \/ DoPOST \/ DoOtherMethod
    \/ MessagesParse \/ MessagesCall \/ MessagesRespond \/ MessagesExcept
    \/ InvokeParse \/ InvokeCall \/ InvokeRespond \/ InvokeExcept
    \/ StreamCallCustom \/ StreamCallSdk
    \/ ReadChunk \/ ReadError \/ ReadEnd
    \/ StreamHead \/ StreamEventCustom \/ StreamEventSdk \/ StreamIterError
    \/ StreamEnd \/ StreamExcept

Spec == Init /\ [][Next]_vars

NextRoute == DoPOST \/ DoOtherMethod

SpecRoute == InitRoute /\ [][NextRoute]_vars

----------------------------------------------------------------------------
(* The translation functions, as functions *)

(* JSON values.  A string is a sequence of tokens, each either one         *)
(* whitespace character or a run of other characters; a number is kept by  *)
(* its decimal text; an object is a function whose domain is its keys.     *)
JStr(s) == [t |-> "str", v |-> s]
JNum(s) == [t |-> "num", v |-> s]
JNull == [t |-> "null", v |-> <<>>]
JList(items) == [t |-> "list", v |-> items]
JDict(d) == [t |-> "dict", v |-> d]

EmptyDict == [k \in {} |-> JNull]

\* dict.get(k, default)
Get(d, k, default) == IF k \in DOMAIN d THEN d[k] ELSE default

\* What a translation function returns, or the exception it raises.
Ok(v) == [tag |-> "ok", val |-> v]
Raise(e, k) == [tag |-> "raise", exc |-> e, key |-> k]

\* str(content) of a content that is neither a string nor a list.
PyStr(c) ==
    CASE c.t = "null" -> <<"None">>
      [] c.t = "num" -> c.v

\* A Converse content block {'text': x}.
Block(x) == JDict("text" :> x)

TextType == JStr(<<"text">>)

\* The loop over the items of a list content.  strict: the proxy reads
\* item['text'], the provider item.get('text', '').
RECURSIVE ContentItems(_, _)
ContentItems(items, strict) ==
    IF items = <<>> THEN Ok(<<>>)
    ELSE LET item == Head(items)
             rest == ContentItems(Tail(items), strict)
             Then(b) == IF rest.tag = "ok" THEN Ok(<<b>> \o rest.val) ELSE rest
         IN  CASE item.t = "dict" /\ Get(item.v, "type", JNull) = TextType ->
                    IF "text" \in DOMAIN item.v THEN Then(Block(item.v["text"]))
                    ELSE IF strict THEN Raise("KeyError", "text")
                    ELSE Then(Block(JStr(<<>>)))
               [] item.t = "str" -> Then(Block(item))
               [] OTHER -> rest

\* bedrock_content of one message content.
BedrockContent(content, strict) ==
    CASE content.t = "str" -> Ok(<<Block(content)>>)
      [] content.t = "list" -> ContentItems(content.v, strict)
      [] OTHER -> Ok(<<Block(JStr(PyStr(content)))>>)

\* The loop over the messages of a proxy endpoint.
RECURSIVE BedrockMessages(_)
BedrockMessages(msgs) ==
    IF msgs = <<>> THEN Ok(<<>>)
    ELSE LET msg == Head(msgs) IN
         IF "role" \notin DOMAIN msg THEN Raise("KeyError", "role")
         ELSE IF "content" \notin DOMAIN msg THEN Raise("KeyError", "content")
         ELSE LET bedrock_content == BedrockContent(msg["content"], TRUE) IN
              IF bedrock_content.tag = "raise" THEN bedrock_content
              ELSE LET rest == BedrockMessages(Tail(msgs)) IN
                   IF rest.tag = "raise" THEN rest
                   ELSE Ok(<<[role |-> msg["role"],
                              content |-> bedrock_content.val]>> \o rest.val)

\* system_content of a proxy endpoint; <<>> stands for None.
SystemContent(request) ==
    IF /\ "system" \in DOMAIN request
       /\ request["system"].t = "str"
       /\ Strip(request["system"].v) # <<>>
    THEN <<Block(request["system"])>>
    ELSE <<>>

InferenceConfig(request) ==
    [maxTokens |-> Get(request, "max_tokens", JNum(<<"4096">>)),
     temperature |-> Get(request, "temperature", JNum(<<"0.7">>))]

DefaultModelId == <<"us.anthropic.claude-3-5-sonnet-20241022-v2:0">>

\* 'system' is set only when system_content is truthy.
WithSystem(request, system_content) ==
    IF system_content # <<>> THEN request @@ ("system" :> system_content)
    ELSE request

\* bedrock_request of handle_messages_endpoint.
MessagesRequest(claude_request) ==
    LET bedrock_messages ==
            BedrockMessages(Get(claude_request, "messages", JList(<<>>)).v)
    IN  IF bedrock_messages.tag = "raise" THEN bedrock_messages
        ELSE Ok(WithSystem([modelId |-> DefaultModelId,
                            messages |-> bedrock_messages.val,
                            inferenceConfig |-> InferenceConfig(claude_request)],
                           SystemContent(claude_request)))

\* bedrock_request of handle_invoke_endpoint.
InvokeRequest(anthropic_request, path_model) ==
    LET bedrock_messages ==
            BedrockMessages(Get(anthropic_request, "messages", JList(<<>>)).v)
        config == InferenceConfig(anthropic_request)
    IN  IF bedrock_messages.tag = "raise" THEN bedrock_messages
        ELSE Ok(WithSystem(
                 [modelId |-> path_model,
                  messages |-> bedrock_messages.val,
                  inferenceConfig |->
                      IF "stop_sequences" \in DOMAIN anthropic_request
                      THEN config @@ ("stopSequences" :>
                                        anthropic_request["stop_sequences"])
                      ELSE config],
                 SystemContent(anthropic_request)))

\* _prepare_bedrock_messages of the provider.
RECURSIVE PrepareBedrockMessages(_)
PrepareBedrockMessages(messages) ==
    IF messages = <<>> THEN <<>>
    ELSE LET msg == Head(messages) IN
         <<[role |-> Get(msg, "role", JStr(<<"user">>)),
            content |->
                BedrockContent(Get(msg, "content", JStr(<<>>)), FALSE).val]>>
         \o PrepareBedrockMessages(Tail(messages))

IsSystemMessage(msg) == Get(msg, "role", JNull) = JStr(<<"system">>)

IsUserMessage(msg) == ~IsSystemMessage(msg)

\* ' '.join(msg.get('content', '') for msg in system_messages)
RECURSIVE JoinContents(_)
JoinContents(msgs) ==
    LET first == Get(Head(msgs), "content", JStr(<<>>)) IN
    IF first.t # "str" THEN Raise("TypeError", "content")
    ELSE IF Len(msgs) = 1 THEN Ok(first.v)
    ELSE LET rest == JoinContents(Tail(msgs)) IN
         IF rest.tag = "raise" THEN rest
         ELSE Ok(first.v \o <<" ">> \o rest.val)

\* _prepare_bedrock_request of the provider.
PrepareBedrockRequest(messages, kwargs) ==
    LET system_messages == SelectSeq(messages, IsSystemMessage)
        user_messages == SelectSeq(messages, IsUserMessage)
        request_body == [messages |-> PrepareBedrockMessages(user_messages),
                         inferenceConfig |-> InferenceConfig(kwargs)]
    IN  IF system_messages = <<>> THEN Ok(request_body)
        ELSE LET system_content == JoinContents(system_messages) IN
             IF system_content.tag = "raise" THEN system_content
             ELSE Ok(request_body
                     @@ ("system" :> <<Block(JStr(system_content.val))>>))

\* claude_response of handle_messages_endpoint (its random id left out).
ClaudeResponse(claude_request, response) ==
    IF "output" \notin DOMAIN response THEN Raise("KeyError", "output")
    ELSE LET blocks == response["output"].message.content IN
    IF blocks = <<>> THEN Raise("IndexError", "0")
    ELSE IF "text" \notin DOMAIN blocks[1].v THEN Raise("KeyError", "text")
    ELSE IF "usage" \notin DOMAIN response THEN Raise("KeyError", "usage")
    ELSE Ok([type |-> "message",
             role |-> "assistant",
             content |-> blocks[1].v["text"],
             model |-> Get(claude_request, "model",
                           JStr(<<"claude-3-5-sonnet-20241022">>)),
             stop_reason |-> Get(response, "stopReason", JStr(<<"end_turn">>)),
             stop_sequence |-> JNull,
             usage |->
               [input_tokens |->
                    Get(response["usage"], "inputTokens", JNum(<<"0">>)),
                output_tokens |->
                    Get(response["usage"], "outputTokens", JNum(<<"0">>))]])

\* What handle_messages_endpoint sends once the backend has answered.
MessagesReply(claude_request, response) ==
    LET claude_response == ClaudeResponse(claude_request, response) IN
    IF claude_response.tag = "ok"
    THEN [status |-> 200, type |-> "application/json",
          body |-> claude_response.val]
    ELSE [status |-> 500, type |-> "application/json",
          body |-> [type |-> "error",
                    error |-> [type |-> "api_error",
                               message |-> claude_response.exc]]]

(* Inputs of the translation functions *)

Texts == {<<>>, <<" ">>, <<"hi">>}

Hi == JStr(<<"hi">>)

\* The shapes an item of a list content can have.
Items ==
    {Hi,
     JDict([type |-> TextType, text |-> Hi]),
     JDict([type |-> TextType]),
     JDict([type |-> JStr(<<"image">>)]),
     Block(Hi),
     JNum(<<"1">>)}

Contents ==
    {JStr(s) : s \in Texts}
    \cup {JList(l) : l \in SeqsUpTo(Items, MaxItems)}
    \cup {JNull, JNum(<<"1">>)}

\* The dicts with no key or with the key k bound to a value of S.
Opt(k, S) == {EmptyDict} \cup {k :> x : x \in S}

Messages(roles) ==
    {r @@ c : r \in Opt("role", roles), c \in Opt("content", Contents)}

PlainMessages(roles) ==
    {r @@ c : r \in Opt("role", roles),
              c \in Opt("content", {JStr(s) : s \in Texts})}

\* One message of any shape, or up to MaxMsgs messages of string content.
MessageLists(roles) ==
    {<<m>> : m \in Messages(roles)}
    \cup SeqsUpTo(PlainMessages(roles), MaxMsgs)

Systems ==
    {JStr(s) : s \in Texts} \cup {JList(<<Block(Hi)>>), JNull}

Params == {JNull, JNum(<<"1">>)}

\* Client bodies: every combination of the top-level fields around one
\* plain message, and every list of messages without other fields.
Bodies ==
    {sy @@ te @@ mt @@ mo @@ ss @@ ("messages" :> JList(<<[role |-> JStr(<<"user">>), content |-> Hi]>>)) :
        sy \in Opt("system", Systems),
        te \in Opt("temperature", Params),
        mt \in Opt("max_tokens", Params),
        mo \in Opt("model", {JStr(<<"m">>)}),
        ss \in Opt("stop_sequences", {JList(<<Hi>>)})}
    \cup Opt("messages",
             {JList(l) : l \in MessageLists({JStr(<<"user">>)})})

PathModels == {<<"x">>}

Kwargs ==
    {te @@ mt : te \in Opt("temperature", Params),
                mt \in Opt("max_tokens", Params)}

\* Backend responses of the synchronous call.
Responses ==
    {o @@ sr @@ us :
        o \in Opt("output",
                  {[message |-> [content |-> c]] :
                      c \in {<<>>, <<Block(Hi)>>, <<JDict(EmptyDict)>>}}),
        sr \in Opt("stopReason", {JStr(<<"max_tokens">>)}),
        us \in Opt("usage",
                   {i @@ o2 : i \in Opt("inputTokens", {JNum(<<"1">>)}),
                              o2 \in Opt("outputTokens", {JNum(<<"2">>)})})}

TranslationInputs ==
    {[fn |-> "messages", body |-> b] : b \in Bodies}
    \cup {[fn |-> "invoke", body |-> b, model_id |-> m] :
             b \in Bodies, m \in PathModels}
    \cup {[fn |-> "provider", messages |-> l, kwargs |-> k] :
             l \in MessageLists({JStr(<<"user">>), JStr(<<"system">>)}),
             k \in Kwargs}
    \cup {[fn |-> "content", content |-> c, strict |-> b] :
             c \in Contents, b \in BOOLEAN}
    \cup {[fn |-> "response", body |-> b, response |-> r] :
             b \in Opt("model", {JStr(<<"m">>)}), r \in Responses}

InitTranslate ==
    /\ method = "POST" /\ target = T(<<"v1", "messages">>, FALSE)
    /\ custom = FALSE
    /\ Fresh
    /\ stage = "start" /\ arg \in TranslationInputs /\ res = <<>>

Applies(fn, result) ==
    /\ stage = "start" /\ arg.fn = fn
    /\ res' = result
    /\ stage' = "done"
    /\ UNCHANGED <<arg, hvars>>

TranslateMessages == Applies("messages", MessagesRequest(arg.body))

TranslateInvoke == Applies("invoke", InvokeRequest(arg.body, arg.model_id))

TranslateProvider ==
    Applies("provider", PrepareBedrockRequest(arg.messages, arg.kwargs))

TranslateResponse ==
    Applies("response", MessagesReply(arg.body, arg.response))

NormalizeContent ==
    /\ stage = "start" /\ arg.fn = "content"
    /\ res' = BedrockContent(arg.content, arg.strict)
    /\ stage' = "normalized"
    /\ UNCHANGED <<arg, hvars>>

\* The blocks just produced are handed to the normalization as a content.
NormalizeAgain ==
    /\ stage = "normalized" /\ res.tag = "ok"
    /\ arg' = [arg EXCEPT !.content = JList(res.val)]
    /\ res' = BedrockContent(JList(res.val), arg.strict)
    /\ stage' = "renormalized"
    /\ UNCHANGED hvars

NextTranslate ==
    \/ TranslateMessages \/ TranslateInvoke \/ TranslateProvider
    \/ TranslateResponse \/ NormalizeContent \/ NormalizeAgain

SpecTranslate == InitTranslate /\ [][NextTranslate]_vars


----------------------------------------------------------------------------
(* Vocabulary of the properties *)

Handled == flow \in {"messages", "invoke", "invoke_stream"}

Finished == pc = "done"

\* The events the translation loop has obtained from the backend so far.
Observed == IF custom THEN [i \in 1..Len(stream) |-> stream[i].ev] ELSE seen

\* The translated SSE records that reached the client, as (type, index, text).
IsEvent(r) == r.kind = "sse" /\ r.type # "error"

ClientEvents ==
    LET w == SelectSeq(Wire, IsEvent)
    IN [i \in 1..Len(w) |-> Out(w[i].type, w[i].index, w[i].text)]

BlockTypes == {"content_block_start", "content_block_delta",
               "content_block_stop"}

\* content_block_stop records written before the i-th write
StopsBefore(i) ==
    Cardinality({j \in 1..(i - 1) :
                   out[j].ok /\ out[j].type = "content_block_stop"})

----------------------------------------------------------------------------
(* C1: whatever failure occurs while a POST to one of the three endpoints  *)
(* is handled, the handler finishes having written a complete HTTP         *)
(* response or, for a stream, a terminal error event; no handled request   *)
(* ends with nothing written.  (Stated for a client that stays connected.) *)

Answered ==
    /\ Wire # <<>>
    /\ \/ Last(Wire).kind = "body"
       \/ /\ flow = "invoke_stream"
          /\ \/ Wire[1].kind = "head"
             \/ Last(Wire).type = "error"

C1_EveryFailureAnswered ==
    (Finished /\ Handled /\ ~ClientGone) => Answered

----------------------------------------------------------------------------
(* C2: for the backend sequence [start, delta("a"), delta("b"), stop] the  *)
(* client receives exactly message_start, content_block_start,             *)
(* content_block_delta("a"), content_block_delta("b"), content_block_stop, *)
(* message_stop, each content-block event with index 0.                    *)

IsStartDeltaDeltaStop(es) ==
    /\ Len(es) = 4
    /\ es[1].key = "messageStart"
    /\ es[2].key = "contentBlockDelta" /\ es[2].wf /\ es[2].text = "a"
    /\ es[3].key = "contentBlockDelta" /\ es[3].wf /\ es[3].text = "b"
    /\ es[4].key = "messageStop" /\ ~es[4].meta

SixEvents ==
    <<Out("message_start", -1, ""),
      Out("content_block_start", 0, ""),
      Out("content_block_delta", 0, "a"),
      Out("content_block_delta", 0, "b"),
      Out("content_block_stop", 0, ""),
      Out("message_stop", -1, "")>>

C2_StreamingOrder ==
    (Finished /\ flow = "invoke_stream" /\ exc = "none"
       /\ IsStartDeltaDeltaStop(Observed))
    => ClientEvents = SixEvents

----------------------------------------------------------------------------
(* C3: the index attached to every content_block_start, _delta and _stop   *)
(* event equals the number of content_block_stop events emitted earlier in *)
(* the stream (so it starts at 0, grows by one per block-stop and never    *)
(* decreases), whatever index the backend payload carries.                 *)

C3_IndexCountsStops ==
    /\ \A i \in 1..Len(out) :
         (out[i].kind = "sse" /\ out[i].type \in BlockTypes)
         => out[i].index = StopsBefore(i)
    /\ current_index = StopsBefore(Len(out) + 1)

\* a delta whose payload says block 0 is sent with index 2
C3_Witness ==
    \E i \in 1..Len(out) :
      /\ out[i].ok /\ out[i].type = "content_block_delta"
      /\ out[i].text = "a" /\ out[i].index = 2

----------------------------------------------------------------------------
(* C4: backend units are consumed and client events emitted in strict      *)
(* alternation on both backend paths: when the translator reads the next   *)
(* backend unit, the client events of every unit read before have been     *)
(* written.                                                                *)

AboutToRead ==
    \/ pc = "s_read" /\ pos < Len(bytes)
    \/ pc = "s_loop" /\ ~custom

C4_StrictAlternation == AboutToRead => evIdx = Len(Observed)

----------------------------------------------------------------------------
(* C5: client events are written in the order in which the backend events  *)
(* that produced them were observed, none reordered and none duplicated.   *)

Attempted == SelectSeq(out, IsEvent)

\* the backend event observed as number k (SDK) or on line k (custom)
EventAt(k) ==
    IF custom
    THEN (CHOOSE i \in 1..Len(stream) : stream[i].line = k)
    ELSE k

C5_OrderPreserved ==
    /\ \A i, j \in 1..Len(stream) : i < j => stream[i].line < stream[j].line
    /\ \A i, j \in 1..Len(Attempted) :
         i < j => Attempted[i].src <= Attempted[j].src
    /\ \A k \in {Attempted[i].src : i \in 1..Len(Attempted)} :
         LET sub == SelectSeq(Attempted, LAMBDA r : r.src = k)
             em == Emission(Observed[EventAt(k)], 0)
         IN /\ Len(sub) <= Len(em)
            /\ \A j \in 1..Len(sub) :
                 sub[j].type = em[j].type /\ sub[j].text = em[j].text

\* three events, among them the two records of one messageStop
C5_Witness ==
    /\ Len(ClientEvents) >= 3
    /\ \E i \in 1..(Len(Attempted) - 2) :
         /\ Attempted[i].src < Attempted[i + 1].src
         /\ Attempted[i + 1].src = Attempted[i + 2].src

----------------------------------------------------------------------------
(* C6: every method and path resolves to exactly one of the messages flow  *)
(* (POST /v1/messages), the invoke flow (POST /model/{id}/invoke), the     *)
(* invoke-stream flow (POST /model/{id}/invoke-with-response-stream) or    *)
(* UnsupportedEndpoint; streaming is selected exactly when the operation   *)
(* suffix is invoke-with-response-stream; an unsupported request gets an   *)
(* error status, no backend call and no other effect.                      *)

\* "/model/{id}/<op>" with a non-empty id (which may itself contain "/")
IsModelPath(segs, op) ==
    /\ Len(segs) >= 3
    /\ Head(segs) = "model"
    /\ Last(segs) = op
    /\ \E i \in 2..(Len(segs) - 1) : segs[i] # "" \/ Len(segs) > 3

ExpectedFlow ==
    IF method # "POST" THEN "unsupported"
    ELSE IF target.segs = <<"v1", "messages">> THEN "messages"
    ELSE IF IsModelPath(target.segs, "invoke") THEN "invoke"
    ELSE IF IsModelPath(target.segs, "invoke-with-response-stream")
    THEN "invoke_stream"
    ELSE "unsupported"

C6_RouterResolves ==
    pc # "request" =>
      /\ flow = ExpectedFlow
      /\ flow = "unsupported" =>
           /\ Finished
           /\ backendCalls = <<>> /\ body = "unread"
           /\ Len(out) = 2
           /\ out[1].kind = "head"
           /\ out[1].status = (IF method = "POST" THEN 404 ELSE 501)
      /\ flow \in {"invoke", "invoke_stream"} =>
           model_id = SubSeq(target.segs, 2, Len(target.segs) - 1)
      /\ (pc \in {"messages", "invoke"}) => out = <<>> /\ backendCalls = <<>>

\* a streaming request whose model id spans two segments, with a query
C6_Witness ==
    /\ flow = "invoke_stream" /\ pc = "invoke"
    /\ target.query /\ Len(model_id) = 2

----------------------------------------------------------------------------
(* C7: in structured-event mode every backend event produces a client      *)
(* event whose type is given by the fixed table, metadata included; an     *)
(* event with an unknown top-level key is passed through with the key as   *)
(* its type.                                                               *)

TableType(key) ==
    CASE key = "messageStart" -> "message_start"
      [] key = "contentBlockStart" -> "content_block_start"
      [] key = "contentBlockDelta" -> "content_block_delta"
      [] key = "contentBlockStop" -> "content_block_stop"
      [] key = "messageStop" -> "message_stop"
      [] key = "metadata" -> "metadata"
      [] OTHER -> key

C7_EveryEventTranslated ==
    (~custom /\ flow = "invoke_stream" /\ exc = "none") =>
      \A k \in 1..evIdx :
        \E i \in 1..Len(out) :
          /\ out[i].ok /\ out[i].kind = "sse" /\ out[i].src = k
          /\ out[i].type = TableType(seen[k].key)

----------------------------------------------------------------------------
(* C8: a backend stream unit whose embedded JSON fails to decode is        *)
(* skipped and is not fatal: every well-formed event before and after it   *)
(* is translated and delivered in order, and no error event is emitted     *)
(* because of it.                                                          *)

\* The events of the well-formed data lines of a whole response body.
RECURSIVE GoodEvents(_)
GoodEvents(lines) ==
    IF lines = <<>> THEN <<>>
    ELSE LET line == Strip(Head(lines))
             r == JsonLoads(SubSeq(line, 7, Len(line)))
         IN (IF StartsWith(line, DataPrefix) /\ r.ok THEN <<r.ev>> ELSE <<>>)
              \o GoodEvents(Tail(lines))

TypeText(em) == [i \in 1..Len(em) |-> <<em[i].type, em[i].text>>]

RECURSIVE Translated(_)
Translated(es) ==
    IF es = <<>> THEN <<>>
    ELSE TypeText(Emission(Head(es), 0)) \o Translated(Tail(es))

C8_MalformedUnitSkipped ==
    (custom /\ pc \in {"s_head", "s_loop", "done"} /\ exc = "none"
       /\ flow = "invoke_stream") =>
      /\ Observed = GoodEvents(Split(bytes))
      /\ \A i \in 1..Len(out) : out[i].type # "error"
      /\ Finished => TypeText(ClientEvents) = Translated(GoodEvents(Split(bytes)))

BadLine == DataPrefix \o <<"{", "S", "\n">>

\* an undecodable line between two good ones, both delivered
C8_Witness ==
    /\ Finished /\ exc = "none" /\ custom
    /\ bytes = LineOf("S") \o BadLine \o LineOf("a")
    /\ TypeText(ClientEvents) =
         <<(<<"message_start", "">>), (<<"content_block_delta", "a">>)>>

----------------------------------------------------------------------------
(* C9: however the backend byte stream is split into chunks, the parser    *)
(* extracts the same events as when it is fed all bytes at once, and an    *)
(* incomplete trailing unit stays in the buffer, never discarded.          *)

\* the longest suffix of s without a newline
RECURSIVE Trailing(_)
Trailing(s) ==
    IF s = <<>> \/ Last(s) = "\n" THEN <<>>
    ELSE Append(Trailing(SubSeq(s, 1, Len(s) - 1)), Last(s))

AtOnce(s) == Feed(<<>>, <<>>, 0, s)

C9_ChunkingIrrelevant ==
    /\ pc = "s_read" =>
         /\ stream = AtOnce(SubSeq(bytes, 1, pos)).stream
         /\ buffer = Trailing(SubSeq(bytes, 1, pos))
    /\ (custom /\ pc \in {"s_head", "s_loop"}) =>
         LET r == AtOnce(bytes)
         IN stream = ProcessLine(r.buffer, r.stream, r.lineNo + 1)

\* part of a line is buffered after an event of an earlier line
C9_Witness ==
    /\ pc = "s_read" /\ pos < Len(bytes)
    /\ Len(stream) = 1 /\ Len(buffer) = 8

----------------------------------------------------------------------------
(* C10: after the first failed write to the client no further backend      *)
(* event or chunk is read and no backend call is made, on either path.     *)

C10_StopsAfterClientGone ==
    [][ClientGone =>
         (seen' = seen /\ pos' = pos /\ backendCalls' = backendCalls)]_vars

\* an SDK stream abandoned after a failed write, with events still to come
C10_Witness ==
    /\ Finished /\ ~custom /\ exc = "BrokenPipeError"
    /\ Len(seen) \in 2..(MaxEvents - 1)
    /\ ~Last(out).ok /\ out[Len(out) - 1].type = "content_block_delta"

----------------------------------------------------------------------------
(* C11: the translation ends when the backend signals completion:          *)
(* message_stop is emitted at most once and no client event is emitted     *)
(* after it, whatever backend events follow the terminal messageStop.      *)

C11_NothingAfterMessageStop ==
    \A i \in 1..Len(ClientEvents) :
      ClientEvents[i].type = "message_stop" => i = Len(ClientEvents)

----------------------------------------------------------------------------
(* Vocabulary of the translation properties *)

\* A proxy endpoint has translated the client body arg.body.
ProxyTranslated == stage = "done" /\ arg.fn \in {"messages", "invoke"}

\* Any of the three request translations has returned.
RequestBuilt ==
    stage = "done" /\ arg.fn \in {"messages", "invoke", "provider"}
    /\ res.tag = "ok"

\* Client parameter names and their names in inferenceConfig.
ParamKeys ==
    {<<"temperature", "temperature">>, <<"max_tokens", "maxTokens">>,
     <<"stop_sequences", "stopSequences">>}

AbsentOrNull(d, k) == k \notin DOMAIN d \/ d[k] = JNull

IsBlank(x) == x.t = "str" /\ Strip(x.v) = <<>>

----------------------------------------------------------------------------
(* C12: null-omission: an inference parameter that is absent or null in    *)
(* the client body does not appear in the translated inferenceConfig; in   *)
(* particular a body lacking temperature yields no temperature key.        *)

C12_NullOmission ==
    (ProxyTranslated /\ res.tag = "ok")
    => \A p \in ParamKeys :
         AbsentOrNull(arg.body, p[1])
         => p[2] \notin DOMAIN res.val.inferenceConfig

----------------------------------------------------------------------------
(* C13: content normalization is idempotent: normalizing the blocks that   *)
(* a normalization produced yields the same blocks in the same order.      *)

C13_NormalizeIdempotent ==
    stage = "renormalized" => (res.tag = "ok" /\ res.val = arg.content.v)

----------------------------------------------------------------------------
(* C14: request translation of a parsed body fails only if messages is     *)
(* absent or a message lacks a role: when messages is present and every    *)
(* message has a role, the translation succeeds, also for a message with   *)
(* no content and for a text-typed item with no text.                      *)

C14_FailsOnlyWithoutRole ==
    (/\ ProxyTranslated
     /\ "messages" \in DOMAIN arg.body
     /\ \A i \in 1..Len(arg.body["messages"].v) :
          "role" \in DOMAIN arg.body["messages"].v[i])
    => res.tag = "ok"

----------------------------------------------------------------------------
(* C15: no translated request of either proxy endpoint or of the provider  *)
(* contains a system text block whose text is empty or only whitespace.    *)

C15_BlankSystemOmitted ==
    (RequestBuilt /\ "system" \in DOMAIN res.val)
    => \A i \in 1..Len(res.val["system"]) :
         ~IsBlank(res.val["system"][i].v["text"])

----------------------------------------------------------------------------
(* C16: a system prompt given as a non-empty sequence of text blocks is    *)
(* carried into the translated request, as a non-blank string is.          *)

C16_SystemSequenceAccepted ==
    (/\ ProxyTranslated /\ res.tag = "ok"
     /\ "system" \in DOMAIN arg.body
     /\ arg.body["system"].t = "list"
     /\ arg.body["system"].v # <<>>)
    => (/\ "system" \in DOMAIN res.val
        /\ res.val["system"] = arg.body["system"].v)

----------------------------------------------------------------------------
(* C17: a translated message has zero content blocks only when the client  *)
(* content is itself an empty list; a string, a non-empty list of any      *)
(* items, and any other value yield at least one block.                    *)

C17_NeverZeroBlocks ==
    (stage = "normalized" /\ res.tag = "ok" /\ res.val = <<>>)
    => arg.content = JList(<<>>)

----------------------------------------------------------------------------
(* C18: the modelId of the backend request is the path model when the path *)
(* carries one, otherwise the body's model when present, otherwise the     *)
(* default identifier.                                                     *)

C18_ModelSelection ==
    (ProxyTranslated /\ res.tag = "ok")
    => res.val.modelId =
         IF arg.fn = "invoke" THEN arg.model_id
         ELSE IF "model" \in DOMAIN arg.body THEN arg.body["model"].v
         ELSE DefaultModelId

----------------------------------------------------------------------------
(* C19: for every backend response carrying text at                        *)
(* output.message.content[0].text the client response is a 200 with role   *)
(* assistant, that text, the backend stopReason or end_turn, and the       *)
(* backend token counts, each 0 when absent, also when the response has no *)
(* usage object.                                                           *)

CarriesText(response) ==
    /\ "output" \in DOMAIN response
    /\ response["output"].message.content # <<>>
    /\ "text" \in DOMAIN response["output"].message.content[1].v

C19_ResponseTranslated ==
    (stage = "done" /\ arg.fn = "response" /\ CarriesText(arg.response))
    => LET usage == Get(arg.response, "usage", EmptyDict) IN
       /\ res.status = 200
       /\ res.body.role = "assistant"
       /\ res.body.content = arg.response["output"].message.content[1].v["text"]
       /\ res.body.stop_reason =
            Get(arg.response, "stopReason", JStr(<<"end_turn">>))
       /\ res.body.usage.input_tokens = Get(usage, "inputTokens", JNum(<<"0">>))
       /\ res.body.usage.output_tokens =
            Get(usage, "outputTokens", JNum(<<"0">>))

----------------------------------------------------------------------------
(* C20: in the streaming flow every SSE record that reaches the client,    *)
(* the terminal error event included, is written after the 200 status line *)
(* and the event-stream headers, also when the backend call fails before   *)
(* the stream starts.                                                      *)

IsStreamHead(r) ==
    r.kind = "head" /\ r.ok /\ r.status = 200 /\ r.type = "text/event-stream"

C20_SseAfterHeaders ==
    \A i \in 1..Len(out) :
      (out[i].kind = "sse" /\ out[i].ok)
      => \E j \in 1..(i - 1) : IsStreamHead(out[j])

----------------------------------------------------------------------------
(* C21: at most one HTTP status line is written per handled request: on    *)
(* the non-streaming endpoints, once the 200 response has been started no  *)
(* 500 response is written on the same request, whatever fails afterwards. *)

StatusLines == SelectSeq(Wire, LAMBDA r : r.kind = "head")

C21_OneStatusLine ==
    flow \in {"messages", "invoke"} => Len(StatusLines) <= 1

----------------------------------------------------------------------------
(* C22: the client stream is well-bracketed for every backend event        *)
(* sequence: message_start precedes every content-block event, and every   *)
(* content_block_delta or content_block_stop with index i is preceded by a *)
(* content_block_start with index i not yet closed by a content_block_stop *)
(* with index i.                                                           *)

\* The k-th client event lies inside an open block of its own index.
InOpenBlock(k) ==
    \E j \in 1..(k - 1) :
      /\ ClientEvents[j].type = "content_block_start"
      /\ ClientEvents[j].index = ClientEvents[k].index
      /\ \A l \in (j + 1)..(k - 1) :
           ~(/\ ClientEvents[l].type = "content_block_stop"
             /\ ClientEvents[l].index = ClientEvents[k].index)

C22_WellBracketed ==
    \A k \in 1..Len(ClientEvents) :
      /\ ClientEvents[k].type \in BlockTypes
         => \E j \in 1..(k - 1) : ClientEvents[j].type = "message_start"
      /\ ClientEvents[k].type \in {"content_block_delta", "content_block_stop"}
         => InOpenBlock(k)

====
